---- MODULE Spec2Model ----
(***************************************************************************)
(* A model of the geometry kernel of math-ts: Vec2/Vec3, Mat2A, MatA and  *)
(* its composer, Mat4.transformPoint, Box2/Box3 and Box2.integerPoints.   *)
(*                                                                         *)
(* Numbers.  A JavaScript number is modelled by an integer.  In the box   *)
(* and vector part a number v is held in fixed point as the integer       *)
(* v * Res, so that halves exist and Math.floor does something; the three *)
(* non-finite values are the codes Infinity, NegInfinity and NaN, and all *)
(* arithmetic goes through the operators below, which give them their     *)
(* IEEE meaning.  In the MatA part entries are plain integers; the numbers *)
(* of Mat4.perspective are rounded binary numbers (see Rounded numbers).   *)
(*                                                                         *)
(* Storage.  A Vec2 or Vec3 is a cell of a heap (a function from cell ids *)
(* to tuples); an operation is a heap transformer whose writes happen in  *)
(* the order of the source's statements, so a destination that is the     *)
(* same cell as a source is read after it was written exactly where the   *)
(* source does so.  Index i of a tuple is index i-1 of the source array.  *)
(***************************************************************************)
EXTENDS Integers, Sequences, FiniteSets, TLC

VARIABLES
    box2,      \* the Box2 under test: <<P0, P1>>, the values of its two corner cells
    box3,      \* the Box3 under test: <<P0, P1>>
    vec,       \* the Vec2 under test
    call,      \* the last call: its name, input values and results
    itB,       \* integerPoints: the box argument
    itX,       \* integerPoints: loop variable x
    itY,       \* integerPoints: loop variable y
    itP,       \* integerPoints: the single reused output vector P
    itPc,      \* integerPoints: position of the generator
    itOut,     \* integerPoints: the values yielded so far, in order
    mats,      \* heap of MatA objects: matrix id -> its 16 entries
    comp,      \* composers: composer id -> the id of the matrix it holds
    got,       \* composers: composer id -> the matrix ids its get() calls returned
    ref,       \* matrix id -> the same calls replayed through the static mutators
    mcall      \* the last MatA call: its name, the composer it went through (0 = none),
               \* the matrix it was made on, its argument, and the mutator calls so far

vars == <<box2, box3, vec, call, itB, itX, itY, itP, itPc, itOut, mats, comp, got, ref, mcall>>

itVars == <<itB, itX, itY, itP, itPc, itOut>>
matVars == <<mats, comp, got, ref, mcall>>

\* the names of the MatA mutators
Mutators == {"translate", "scaleX", "scaleY", "scaleZ", "scale", "scaleVector",
             "rotateX", "rotateY", "rotateZ"}

-----------------------------------------------------------------------------
(* Bounds of the model *)

\* fixed-point resolution: the number v is the integer v * Res
Res == 2
\* finite numbers of the box part stay within -MaxMag .. MaxMag (in units)
MaxMag == 2
\* longest point or box collection passed to one call
MaxLen == 2
\* most MatA mutator calls in one run
MaxCalls == 2
\* most composers built in one run
MaxComposers == 2
\* the most calls of one rotation in a row
MaxTurns == 4
\* the bits of precision of a rounded number (53 in a JavaScript number)
MantBits == 5
\* the exponents of a rounded number are -MaxExp..MaxExp
MaxExp == 12

-----------------------------------------------------------------------------
(* Numbers *)

Infinity == 1000
NegInfinity == -Infinity
NaN == Infinity + Infinity + 1

IsFinite(a) == a # NaN /\ a # Infinity /\ a # NegInfinity

Neg(a) == IF a = NaN THEN NaN ELSE -a

\* a + b
Add(a, b) ==
    IF a = NaN \/ b = NaN THEN NaN
    ELSE IF ~IsFinite(a) THEN (IF ~IsFinite(b) /\ b # a THEN NaN ELSE a)
    ELSE IF ~IsFinite(b) THEN b
    ELSE a + b

\* a * k for a whole number k (k is a plain integer, a is in fixed point)
Times(a, k) ==
    IF a = NaN THEN NaN
    ELSE IF ~IsFinite(a) THEN (IF k = 0 THEN NaN ELSE IF k > 0 THEN a ELSE -a)
    ELSE a * k

\* a <= b as JavaScript compares: false when either side is NaN
Le(a, b) == a # NaN /\ b # NaN /\ a <= b

MathMin(a, b) == IF a = NaN \/ b = NaN THEN NaN ELSE IF a <= b THEN a ELSE b

MathMax(a, b) == IF a = NaN \/ b = NaN THEN NaN ELSE IF a >= b THEN a ELSE b

\* Math.floor that rounds up
MathFloor_ceil(a) == IF IsFinite(a) THEN -((-a) \div Res) * Res ELSE a

MathFloor(a) == IF IsFinite(a) THEN (a \div Res) * Res ELSE a

-----------------------------------------------------------------------------
(* Vec2 on a heap h; u, v are source cells and d is the destination cell *)

Put(h, c, i, val) == [h EXCEPT ![c][i] = val]

Vec2_uniform(h, s, d) == Put(Put(h, d, 1, s), d, 2, s)

Vec2_copy(h, v, d) ==
    LET h1 == Put(h, d, 1, h[v][1])
    IN  Put(h1, d, 2, h1[v][2])

Vec2_scaled(h, u, s, d) ==
    LET h1 == Put(h, d, 1, Times(h[u][1], s))
    IN  Put(h1, d, 2, Times(h1[u][2], s))

\* Vec2.min that writes only the x component
Vec2_min_xOnly(h, u, v, d) == Put(h, d, 1, MathMin(h[u][1], h[v][1]))

Vec2_min(h, u, v, d) ==
    LET h1 == Put(h, d, 1, MathMin(h[u][1], h[v][1]))
    IN  Put(h1, d, 2, MathMin(h1[u][2], h1[v][2]))

\* Vec2.max that takes the minimum in the y component
Vec2_max_minY(h, u, v, d) ==
    LET h1 == Put(h, d, 1, MathMax(h[u][1], h[v][1]))
    IN  Put(h1, d, 2, MathMin(h1[u][2], h1[v][2]))

Vec2_max(h, u, v, d) ==
    LET h1 == Put(h, d, 1, MathMax(h[u][1], h[v][1]))
    IN  Put(h1, d, 2, MathMax(h1[u][2], h1[v][2]))

Vec2_lper(h, u, d) ==
    LET x  == h[u][1]
        h1 == Put(h, d, 1, Neg(h[u][2]))
    IN  Put(h1, d, 2, x)

Vec2_floor(h, u, d) ==
    LET h1 == Put(h, d, 1, MathFloor(h[u][1]))
    IN  Put(h1, d, 2, MathFloor(h1[u][2]))

\* M is a 6-tuple: whole-number linear part, fixed-point dx and dy
Mat2A_transformPoint(h, M, P, d) ==
    LET x  == h[P][1]
        y  == h[P][2]
        h1 == Put(h, d, 1, Add(Add(Times(x, M[1]), Times(y, M[2])), M[3]))
    IN  Put(h1, d, 2, Add(Add(Times(x, M[4]), Times(y, M[5])), M[6]))

\* Mat2A.fromDOMMatrix: the six entries written to the destination, in the
\* order of its indices 0..5; M is the host matrix, a record of a, b, c, d, e, f
Mat2A_fromDOMMatrix(M) == <<M.a, M.b, M.e, M.c, M.d, M.f>>

-----------------------------------------------------------------------------
(* Box2 on a heap; a box is the pair <<c0, c1>> of its corner cells *)

Box2_empty(h, B) == Vec2_uniform(Vec2_uniform(h, Infinity, B[1]), NegInfinity, B[2])

Box2_expand(h, B, P) == Vec2_max(Vec2_min(h, B[1], P, B[1]), B[2], P, B[2])

RECURSIVE Box2_expandAll(_, _, _)
Box2_expandAll(h, B, Ps) ==
    IF Ps = <<>> THEN h
    ELSE Box2_expandAll(Vec2_max(Vec2_min(h, B[1], Head(Ps), B[1]), B[2], Head(Ps), B[2]),
                        B, Tail(Ps))

\* Box2.expandByBox that takes the corners of C instead of the union
Box2_expandByBox_assign(h, B, C) == Vec2_copy(Vec2_copy(h, C[1], B[1]), C[2], B[2])

Box2_expandByBox(h, B, C) == Vec2_max(Vec2_min(h, B[1], C[1], B[1]), B[2], C[2], B[2])

RECURSIVE Box2_expandByBoxes(_, _, _)
Box2_expandByBoxes(h, B, Cs) ==
    IF Cs = <<>> THEN h
    ELSE Box2_expandByBoxes(Box2_expandByBox(h, B, Head(Cs)), B, Tail(Cs))

Box2_scale(h, B, s) == Vec2_scaled(Vec2_scaled(h, B[1], s, B[1]), B[2], s, B[2])

Box2_floor(h, B) == Vec2_floor(Vec2_floor(h, B[1], B[1]), B[2], B[2])

Box2_fromPoints(h, Ps, d) == Box2_expandAll(Box2_empty(h, d), d, Ps)

RECURSIVE WrapLoop(_, _, _)
WrapLoop(h, Bs, d) ==
    IF Bs = <<>> THEN h
    ELSE WrapLoop(Box2_expandByBox(h, d, Head(Bs)), Tail(Bs), d)

Box2_wrapping(h, Bs, d) == WrapLoop(Box2_empty(h, d), Bs, d)

-----------------------------------------------------------------------------
(* MatA and Mat4: a matrix is a function on 0..15, row-major as in the source; *)
(* a mutator is the new value of the matrix it was given (it writes in place, *)
(* and the heap update is made by the calls below).  An angle is a whole      *)
(* number q of quarter turns, angle = q * PI / 2, with exact cosine and sine. *)

MathCos(q) == <<1, 0, -1, 0>>[(q % 4) + 1]
MathSin(q) == <<0, 1, 0, -1>>[(q % 4) + 1]

MatA_eye == [i \in 0..15 |-> IF i \in {0, 5, 10, 15} THEN 1 ELSE 0]

MatA_translate(A, u) ==
    [A EXCEPT ![3] = @ + u[1], ![7] = @ + u[2], ![11] = @ + u[3]]

MatA_scaleX(A, s) == [i \in 0..15 |-> IF i \in 0..3 THEN A[i] * s ELSE A[i]]

MatA_scaleY(A, s) == [i \in 0..15 |-> IF i \in 4..7 THEN A[i] * s ELSE A[i]]

MatA_scaleZ(A, s) == [i \in 0..15 |-> IF i \in 8..11 THEN A[i] * s ELSE A[i]]

\* MatA.scale that multiplies all sixteen entries
MatA_scale_all(A, s) == [i \in 0..15 |-> A[i] * s]

MatA_scale(A, s) == [i \in 0..15 |-> IF i \in 0..11 THEN A[i] * s ELSE A[i]]

MatA_scaleVector(A, u) ==
    LET sx == u[1]
        sy == u[2]
        sz == u[3]
    IN  [i \in 0..15 |-> IF i \in 0..3 THEN A[i] * sx
                         ELSE IF i \in 4..7 THEN A[i] * sy
                         ELSE IF i \in 8..11 THEN A[i] * sz
                         ELSE A[i]]

\* the rotation shared by rotateX, rotateY and rotateZ: r0 and r1 are the first
\* entries of the rows read into a00..a03 and a10..a13
Rotate(A, q, r0, r1) ==
    LET c == MathCos(q)
        s == MathSin(q)
    IN  [i \in 0..15 |->
            IF i \in r0..(r0 + 3) THEN c * A[i] - s * A[r1 + (i - r0)]
            ELSE IF i \in r1..(r1 + 3) THEN c * A[i] + s * A[r0 + (i - r1)]
            ELSE A[i]]

MatA_rotateX(A, q) == Rotate(A, q, 4, 8)

MatA_rotateY(A, q) == Rotate(A, q, 8, 0)

\* MatA.rotateZ with the two rows exchanged: it turns the other way
MatA_rotateZ_opposite(A, q) == Rotate(A, q, 4, 0)

MatA_rotateZ(A, q) == Rotate(A, q, 0, 4)

\* a / w, for the divisors the model meets: w divides a
Quot(a, w) == a \div w

Mat4_transformPoint(M, P) ==
    LET x == P[1]
        y == P[2]
        z == P[3]
        w == M[12] * x + M[13] * y + M[14] * z + M[15]
    IN  <<Quot(M[0] * x + M[1] * y + M[2] * z + M[3], w),
          Quot(M[4] * x + M[5] * y + M[6] * z + M[7], w),
          Quot(M[8] * x + M[9] * y + M[10] * z + M[11], w)>>

-----------------------------------------------------------------------------
(* Rounded numbers.  Mat4.perspective divides, and a JavaScript division is   *)
(* rounded to the nearest number of 53 bits of precision, ties to even.  Here *)
(* a rounded number is the pair <<m, e>> of value m * 2^e, normalised so that *)
(* 2^(MantBits-1) <= |m| < 2^MantBits, or <<0, 0>>; every operation computes  *)
(* the exact result and rounds it the IEEE way.  Overflow, underflow and the  *)
(* sign of zero do not occur with the arguments of the model.                 *)

Abs(n) == IF n < 0 THEN -n ELSE n

Pow2(k) == IF k <= 0 THEN 1 ELSE 2 ^ k

\* num / den  >=  k * 2^e, for num >= 0 and den > 0
AtLeast(num, den, k, e) == num * Pow2(-e) >= k * Pow2(e) * den

\* the number nearest to num / den (den > 0), ties to the even mantissa
Round(num, den) ==
    IF num = 0 THEN <<0, 0>>
    ELSE LET a  == Abs(num)
             e  == CHOOSE x \in (-MaxExp)..MaxExp :
                       /\ AtLeast(a, den, Pow2(MantBits - 1), x)
                       /\ ~AtLeast(a, den, Pow2(MantBits), x)
             n  == a * Pow2(-e)
             d  == den * Pow2(e)
             q  == n \div d
             r  == n % d
             m  == IF 2 * r > d \/ (2 * r = d /\ q % 2 = 1) THEN q + 1 ELSE q
             sg == IF num < 0 THEN -1 ELSE 1
         IN  IF m = Pow2(MantBits) THEN <<sg * Pow2(MantBits - 1), e + 1>>
             ELSE <<sg * m, e>>

FNeg(x) == <<-x[1], x[2]>>

\* x + y
FAdd(x, y) ==
    LET lo == IF x[2] < y[2] THEN x[2] ELSE y[2]
    IN  Round((x[1] * Pow2(x[2] - lo) + y[1] * Pow2(y[2] - lo)) * Pow2(lo), Pow2(-lo))

FSub(x, y) == FAdd(x, FNeg(y))

\* x * y
FMul(x, y) ==
    Round(x[1] * y[1] * Pow2(x[2] + y[2]), Pow2(-(x[2] + y[2])))

\* x / y, for y # 0
FDiv(x, y) ==
    LET k  == x[2] - y[2]
        sg == IF y[1] < 0 THEN -1 ELSE 1
    IN  Round(sg * x[1] * Pow2(k), Abs(y[1]) * Pow2(-k))

\* x <= num / den in exact arithmetic, for den > 0
FLeq(x, num, den) == x[1] * Pow2(x[2]) * den <= num * Pow2(-x[2])

\* Mat4.perspective without the factor 2 of entry 11
Mat4_perspective_single(params) ==
    LET near  == params.near
        far   == params.far
        depth == FSub(far, near)
        c0    == FDiv(near, params.tan)
        c1    == FDiv(FMul(c0, params.height), params.width)
        O     == Round(0, 1)
    IN  [i \in 0..15 |->
           <<c1, O, O, O,
             O, c0, O, O,
             O, O, FDiv(FNeg(FAdd(near, far)), depth),
                   FDiv(FMul(FNeg(near), far), depth),
             O, O, Round(-1, 1), O>>[i + 1]]

\* Mat4.perspective: the parameters are rounded numbers, and tan is what
\* Math.tan(0.5 * fovy * DEG_TO_RAD) evaluates to
Mat4_perspective(params) ==
    LET near  == params.near
        far   == params.far
        depth == FSub(far, near)
        c0    == FDiv(near, params.tan)
        c1    == FDiv(FMul(c0, params.height), params.width)
        O     == Round(0, 1)
    IN  [i \in 0..15 |->
           <<c1, O, O, O,
             O, c0, O, O,
             O, O, FDiv(FNeg(FAdd(near, far)), depth),
                   FDiv(FMul(FMul(Round(-2, 1), near), far), depth),
             O, O, Round(-1, 1), O>>[i + 1]]

\* the divisor w of Mat4.transformPoint
Mat4_w(M, P) ==
    FAdd(FAdd(FAdd(FMul(M[12], P[1]), FMul(M[13], P[2])), FMul(M[14], P[3])), M[15])

\* Mat4.transformPoint on rounded numbers
Mat4_transformPointF(M, P) ==
    LET x == P[1]
        y == P[2]
        z == P[3]
        w == Mat4_w(M, P)
    IN  <<FDiv(FAdd(FAdd(FAdd(FMul(M[0], x), FMul(M[1], y)), FMul(M[2], z)), M[3]), w),
          FDiv(FAdd(FAdd(FAdd(FMul(M[4], x), FMul(M[5], y)), FMul(M[6], z)), M[7]), w),
          FDiv(FAdd(FAdd(FAdd(FMul(M[8], x), FMul(M[9], y)), FMul(M[10], z)), M[11]), w)>>

-----------------------------------------------------------------------------
\* what a call returns: a matrix (by its id), a composer (by its index) or,
\* from a function declared void, undefined
NoValue == [kind |-> "undefined", id |-> 0]
TheMatrix(id) == [kind |-> "matrix", id |-> id]
TheComposer(k) == [kind |-> "composer", id |-> k]

\* the value the static mutator named op returns when called on matrix id:
\* translate ends with return A, the others are declared void
StaticReturn(op, id) ==
    CASE op = "translate" -> TheMatrix(id)
      [] op = "scaleX" -> NoValue
      [] op = "scaleY" -> NoValue
      [] op = "scaleZ" -> NoValue
      [] op = "scale" -> NoValue
      [] op = "scaleVector" -> NoValue
      [] op = "rotateX" -> NoValue
      [] op = "rotateY" -> NoValue
      [] op = "rotateZ" -> NoValue

\* a composer whose methods return what the static mutator returned
ComposerReturn_forwarded(op, k, id) == StaticReturn(op, id)

\* the value the method named op of composer k returns: return this
ComposerReturn(op, k, id) == TheComposer(k)

\* the static mutator named op
Static(op, A, arg) ==
    CASE op = "translate" -> MatA_translate(A, arg)
      [] op = "scaleX" -> MatA_scaleX(A, arg)
      [] op = "scaleY" -> MatA_scaleY(A, arg)
      [] op = "scaleZ" -> MatA_scaleZ(A, arg)
      [] op = "scale" -> MatA_scale(A, arg)
      [] op = "scaleVector" -> MatA_scaleVector(A, arg)
      [] op = "rotateX" -> MatA_rotateX(A, arg)
      [] op = "rotateY" -> MatA_rotateY(A, arg)
      [] op = "rotateZ" -> MatA_rotateZ(A, arg)

(* MatAComposer: a composer is the record of its field A (a matrix id) and,   *)
(* for the claims, of the id its constructor was given and whether that was   *)
(* the default argument.                                                      *)

\* a constructor that keeps a copy: n is the id of a new matrix
NewComposer_copy(ms, id, n) == [ms |-> ms @@ (n :> ms[id]), A |-> n]

\* constructor(private readonly A: MatA): the heap and the field after it
NewComposer(ms, id, n) == [ms |-> ms, A |-> id]

MatAComposer_get(c) == c.A

\* a composer whose scaleY forwards to MatA.scaleX
Composer_crossed(op, ms, c, arg) ==
    [ms EXCEPT ![c.A] = Static(IF op = "scaleY" THEN "scaleX" ELSE op, @, arg)]

\* the composer method named op: the heap after it (it returns this)
Composer(op, ms, c, arg) ==
    CASE op = "translate" -> [ms EXCEPT ![c.A] = MatA_translate(@, arg)]
      [] op = "scaleX" -> [ms EXCEPT ![c.A] = MatA_scaleX(@, arg)]
      [] op = "scaleY" -> [ms EXCEPT ![c.A] = MatA_scaleY(@, arg)]
      [] op = "scaleZ" -> [ms EXCEPT ![c.A] = MatA_scaleZ(@, arg)]
      [] op = "scale" -> [ms EXCEPT ![c.A] = MatA_scale(@, arg)]
      [] op = "scaleVector" -> [ms EXCEPT ![c.A] = MatA_scaleVector(@, arg)]
      [] op = "rotateX" -> [ms EXCEPT ![c.A] = MatA_rotateX(@, arg)]
      [] op = "rotateY" -> [ms EXCEPT ![c.A] = MatA_rotateY(@, arg)]
      [] op = "rotateZ" -> [ms EXCEPT ![c.A] = MatA_rotateZ(@, arg)]

-----------------------------------------------------------------------------
(* Vec3 and Box3 on a heap of 3-tuples; a Box3 is the pair of its P0, P1 cells *)

Vec3_uniform(s) == <<s, s, s>>

Vec3_min(h, u, v, d) ==
    LET h1 == Put(h, d, 1, MathMin(h[u][1], h[v][1]))
        h2 == Put(h1, d, 2, MathMin(h1[u][2], h1[v][2]))
    IN  Put(h2, d, 3, MathMin(h2[u][3], h2[v][3]))

Vec3_max(h, u, v, d) ==
    LET h1 == Put(h, d, 1, MathMax(h[u][1], h[v][1]))
        h2 == Put(h1, d, 2, MathMax(h1[u][2], h1[v][2]))
    IN  Put(h2, d, 3, MathMax(h2[u][3], h2[v][3]))

\* Box3.empty() returns a new object: the value of its two corners
Box3_empty == <<Vec3_uniform(Infinity), Vec3_uniform(NegInfinity)>>

RECURSIVE Box3_expandAll(_, _, _)
Box3_expandAll(h, B, Ps) ==
    IF Ps = <<>> THEN h
    ELSE Box3_expandAll(Vec3_max(Vec3_min(h, B[1], Head(Ps), B[1]), B[2], Head(Ps), B[2]),
                        B, Tail(Ps))

\* the destination d is the caller's box or the default Box3.empty(), already in h
Box3_fromPoints(h, Ps, d) == Box3_expandAll(h, d, Ps)

-----------------------------------------------------------------------------
(* Arguments of the box calls, and the heap a call runs on *)

\* the finite points a call may pass: (-1, 1) and (1/2, -1)
Points == {<<-Res, Res>>, <<Res \div 2, -Res>>}

\* every point value a call may pass: the finite ones and one with a NaN (the
\* infinite ones are the corners of an empty box under test)
AllPoints == Points \cup {<<NaN, 0>>}

NoBox == <<>>
EmptyBox2 == <<<<Infinity, Infinity>>, <<NegInfinity, NegInfinity>>>>

\* the populated boxes a call may pass, and every box value it may pass: those
\* and the empty box (Box2.scale swaps corners, a NaN point leaves a NaN)
PopBoxes == {<<<<-Res, -Res>>, <<Res \div 2, Res \div 2>>>>, <<<<0, Res \div 2>>, <<Res, Res>>>>}

AllBoxes == PopBoxes \cup {EmptyBox2}

\* An argument is a value (alias = 0) or the storage of the box under test:
\* for a point alias = 1, 2 names corner P0, P1; for a box alias = 1 names the box.
Lit(v) == [alias |-> 0, val |-> v]
Alias(c) == [alias |-> c, val |-> <<>>]

\* every argument: the values of S, and the storage of the box under test
PtArgs(S) == {Lit(p) : p \in S} \cup {Alias(1), Alias(2)}
BoxArgs(S) == {Lit(b) : b \in S} \cup {Alias(1)}

Lists(S) == UNION {[1..n -> S] : n \in 0..MaxLen}

\* cells of the Box2 heap: the box under test, the boxes and points passed by
\* value (one slot per position of the collection), and a fresh destination
BoxB == <<1, 2>>
StagedBox(i) == <<2 * i + 1, 2 * i + 2>>
StagedPt(i) == 2 * MaxLen + 2 + i
Fresh == <<3 * MaxLen + 3, 3 * MaxLen + 4>>
Cells == 1..(3 * MaxLen + 4)

Undefined2 == <<NaN, NaN>>

PtCell(args, i) == IF args[i].alias = 0 THEN StagedPt(i) ELSE args[i].alias
BoxCells(args, i) == IF args[i].alias = 0 THEN StagedBox(i) ELSE BoxB

PtRefs(args) == [i \in 1..Len(args) |-> PtCell(args, i)]
BoxRefs(args) == [i \in 1..Len(args) |-> BoxCells(args, i)]

\* the heap before a call: b is the box under test, pts and bxs the arguments
Heap2(b, pts, bxs) ==
    [c \in Cells |->
        IF c = 1 THEN b[1]
        ELSE IF c = 2 THEN b[2]
        ELSE IF c <= 2 * MaxLen + 2
             THEN LET i == (c - 1) \div 2
                  IN  IF i <= Len(bxs) /\ bxs[i].alias = 0
                      THEN bxs[i].val[IF c = 2 * i + 1 THEN 1 ELSE 2]
                      ELSE Undefined2
        ELSE IF c <= 3 * MaxLen + 2
             THEN LET i == c - (2 * MaxLen + 2)
                  IN  IF i <= Len(pts) /\ pts[i].alias = 0 THEN pts[i].val ELSE Undefined2
        ELSE Undefined2]

BoxAt(h, B) == <<h[B[1]], h[B[2]]>>

\* the values the arguments have when the call starts
PtVals(b, args) == [i \in 1..Len(args) |-> IF args[i].alias = 0 THEN args[i].val ELSE b[args[i].alias]]
BoxVals(b, args) == [i \in 1..Len(args) |-> IF args[i].alias = 0 THEN args[i].val ELSE b]

Aliased(args) == \E i \in 1..Len(args) : args[i].alias # 0


\* the finite numbers of a box stay within the model's range
InRange(b) == \A i \in 1..2 : \A j \in 1..Len(b[i]) :
                  IsFinite(b[i][j]) => Abs(b[i][j]) <= MaxMag * Res

NoCall == [op |-> "none", ins |-> <<>>, dst |-> "none", aliased |-> FALSE, ret |-> <<>>, fresh |-> <<>>]

\* an in-place call on the box under test
InPlace(name, ins, h) ==
    /\ InRange(BoxAt(h, BoxB))
    /\ box2' = BoxAt(h, BoxB)
    /\ call' = [op |-> name, ins |-> ins, dst |-> "none", aliased |-> FALSE,
                ret |-> <<>>, fresh |-> <<>>]

\* a call with a destination: hs is the heap after the call made with the box
\* under test as destination, hf after the same call with a fresh destination
\* (al: the destination is also the storage of one of the inputs)
WithDest(name, ins, dst, al, hs, hf) ==
    /\ InRange(BoxAt(hs, BoxB)) /\ InRange(BoxAt(hf, Fresh))
    /\ box2' = IF dst = "self" THEN BoxAt(hs, BoxB) ELSE box2
    /\ call' = [op |-> name, ins |-> ins, dst |-> dst, aliased |-> (dst = "self" /\ al),
                ret |-> IF dst = "self" THEN BoxAt(hs, BoxB) ELSE BoxAt(hf, Fresh),
                fresh |-> BoxAt(hf, Fresh)]

\* a call is made when the caller is done with the results of the one before
Ready == call = NoCall

-----------------------------------------------------------------------------
(* Box2 calls.  PA and BA are the point and box arguments a call may pass. *)

Box2Empty ==
    /\ Ready /\ box2 # NoBox
    /\ \E dst \in {"self", "fresh"} :
         LET h == Heap2(box2, <<>>, <<>>)
         IN  WithDest("empty", <<>>, dst, FALSE, Box2_empty(h, BoxB), Box2_empty(h, Fresh))
    /\ UNCHANGED <<box3, vec, itVars, matVars>>

Box2Expand(PA) ==
    /\ Ready /\ box2 # NoBox
    /\ \E P \in PA :
         LET h == Heap2(box2, <<P>>, <<>>)
         IN  InPlace("expand", PtVals(box2, <<P>>), Box2_expand(h, BoxB, PtCell(<<P>>, 1)))
    /\ UNCHANGED <<box3, vec, itVars, matVars>>

Box2ExpandAll(PA) ==
    /\ Ready /\ box2 # NoBox
    /\ \E Ps \in Lists(PA) :
         LET h == Heap2(box2, Ps, <<>>)
         IN  InPlace("expandAll", PtVals(box2, Ps), Box2_expandAll(h, BoxB, PtRefs(Ps)))
    /\ UNCHANGED <<box3, vec, itVars, matVars>>

Box2ExpandByBox(BA) ==
    /\ Ready /\ box2 # NoBox
    /\ \E C \in BA :
         LET h == Heap2(box2, <<>>, <<C>>)
         IN  InPlace("expandByBox", BoxVals(box2, <<C>>),
                     Box2_expandByBox(h, BoxB, BoxCells(<<C>>, 1)))
    /\ UNCHANGED <<box3, vec, itVars, matVars>>

Box2ExpandByBoxes(BA) ==
    /\ Ready /\ box2 # NoBox
    /\ \E Cs \in Lists(BA) :
         LET h == Heap2(box2, <<>>, Cs)
         IN  InPlace("expandByBoxes", BoxVals(box2, Cs),
                     Box2_expandByBoxes(h, BoxB, BoxRefs(Cs)))
    /\ UNCHANGED <<box3, vec, itVars, matVars>>

\* the factors Box2.scale is called with
Factors == {-1, 0, 2}

Box2Scale ==
    /\ Ready /\ box2 # NoBox
    /\ \E s \in Factors :
         InPlace("scale", <<s>>, Box2_scale(Heap2(box2, <<>>, <<>>), BoxB, s))
    /\ UNCHANGED <<box3, vec, itVars, matVars>>

Box2Floor ==
    /\ Ready /\ box2 # NoBox
    /\ InPlace("floor", <<>>, Box2_floor(Heap2(box2, <<>>, <<>>), BoxB))
    /\ UNCHANGED <<box3, vec, itVars, matVars>>

Box2FromPoints ==
    /\ Ready /\ box2 # NoBox
    /\ \E Ps \in Lists(PtArgs(AllPoints)), dst \in {"self", "fresh"} :
         LET h == Heap2(box2, Ps, <<>>)
         IN  WithDest("fromPoints", PtVals(box2, Ps), dst, Aliased(Ps),
                      Box2_fromPoints(h, PtRefs(Ps), BoxB),
                      Box2_fromPoints(h, PtRefs(Ps), Fresh))
    /\ UNCHANGED <<box3, vec, itVars, matVars>>

Box2Wrapping ==
    /\ Ready /\ box2 # NoBox
    /\ \E Bs \in Lists(BoxArgs(AllBoxes)), dst \in {"self", "fresh"} :
         LET h == Heap2(box2, <<>>, Bs)
         IN  WithDest("wrapping", BoxVals(box2, Bs), dst, Aliased(Bs),
                      Box2_wrapping(h, BoxRefs(Bs), BoxB),
                      Box2_wrapping(h, BoxRefs(Bs), Fresh))
    /\ UNCHANGED <<box3, vec, itVars, matVars>>

-----------------------------------------------------------------------------
(* Vec2 calls with a destination, on the vector under test (cell 1 of a heap   *)
(* whose cell 2 is a fresh destination)                                       *)

HeapV(v) == <<v, Undefined2>>

VecWithDest(name, dst, hs, hf) ==
    /\ InRange(<<hs[1], hf[2]>>)
    /\ vec' = IF dst = "self" THEN hs[1] ELSE vec
    /\ call' = [op |-> name, ins |-> <<vec>>, dst |-> dst, aliased |-> (dst = "self"),
                ret |-> IF dst = "self" THEN hs[1] ELSE hf[2],
                fresh |-> hf[2]]

Vec2Lper ==
    /\ Ready /\ vec # NoBox
    /\ \E dst \in {"self", "fresh"} :
         VecWithDest("lper", dst, Vec2_lper(HeapV(vec), 1, 1), Vec2_lper(HeapV(vec), 1, 2))
    /\ UNCHANGED <<box2, box3, itVars, matVars>>

\* the Mat2A values a call may pass: identity, a quarter turn with a shift, a shear
Mats2A == {<<1, 0, 0, 0, 1, 0>>, <<0, -1, Res, 1, 0, Res \div 2>>, <<1, 1, 0, 0, 1, -Res>>}

Mat2ATransformPoint ==
    /\ Ready /\ vec # NoBox
    /\ \E dst \in {"self", "fresh"}, M \in Mats2A :
         VecWithDest("transformPoint", dst,
                     Mat2A_transformPoint(HeapV(vec), M, 1, 1),
                     Mat2A_transformPoint(HeapV(vec), M, 1, 2))
    /\ UNCHANGED <<box2, box3, itVars, matVars>>

-----------------------------------------------------------------------------
(* Box3 calls *)

Points3 == {<<-Res, Res, 0>>, <<Res \div 2, -Res, Res>>}

AllPoints3 == Points3 \cup {<<NaN, 0, 0>>}

\* cells of the Box3 heap: the box under test, the points passed by value, and
\* the box that the default argument Box3.empty() allocates
Staged3(i) == 2 + i
Fresh3 == <<MaxLen + 3, MaxLen + 4>>

Pt3Refs(args) == [i \in 1..Len(args) |-> IF args[i].alias = 0 THEN Staged3(i) ELSE args[i].alias]

Heap3(b, pts) ==
    [c \in 1..(MaxLen + 4) |->
        IF c <= 2 THEN b[c]
        ELSE IF c <= MaxLen + 2
             THEN IF c - 2 <= Len(pts) /\ pts[c - 2].alias = 0 THEN pts[c - 2].val
                  ELSE Vec3_uniform(NaN)
        ELSE Box3_empty[c - (MaxLen + 2)]]

Box3Empty ==
    /\ Ready /\ box3 # NoBox
    /\ box3' = Box3_empty
    /\ call' = [op |-> "Box3.empty", ins |-> <<>>, dst |-> "fresh", aliased |-> FALSE,
                ret |-> Box3_empty, fresh |-> Box3_empty]
    /\ UNCHANGED <<box2, vec, itVars, matVars>>

Box3ExpandAll(PA) ==
    /\ Ready /\ box3 # NoBox
    /\ \E Ps \in Lists(PA) :
         LET h == Box3_expandAll(Heap3(box3, Ps), BoxB, Pt3Refs(Ps))
         IN  /\ box3' = BoxAt(h, BoxB)
             /\ call' = [op |-> "Box3.expandAll", ins |-> PtVals(box3, Ps), dst |-> "none",
                         aliased |-> FALSE, ret |-> <<>>, fresh |-> <<>>]
    /\ UNCHANGED <<box2, vec, itVars, matVars>>

Box3FromPoints ==
    /\ Ready /\ box3 # NoBox
    /\ \E Ps \in Lists(PtArgs(AllPoints3)), dst \in {"self", "fresh"} :
         LET h  == Heap3(box3, Ps)
             hs == Box3_fromPoints(h, Pt3Refs(Ps), BoxB)
             hf == Box3_fromPoints(h, Pt3Refs(Ps), Fresh3)
         IN  /\ box3' = IF dst = "self" THEN BoxAt(hs, BoxB) ELSE box3
             /\ call' = [op |-> "Box3.fromPoints", ins |-> PtVals(box3, Ps), dst |-> dst,
                         aliased |-> (dst = "self" /\ Aliased(Ps)),
                         ret |-> IF dst = "self" THEN BoxAt(hs, BoxB) ELSE BoxAt(hf, Fresh3),
                         fresh |-> BoxAt(hf, Fresh3)]
    /\ UNCHANGED <<box2, vec, itVars, matVars>>

\* the caller is done with the results of the last call
Return ==
    /\ call # NoCall
    /\ call' = NoCall
    /\ UNCHANGED <<box2, box3, vec, itVars, matVars>>

-----------------------------------------------------------------------------
(* The parts of the state a specification does not use stay as constructed *)

IdleIt == itB = NoBox /\ itX = 0 /\ itY = 0 /\ itP = <<0, 0>> /\ itPc = "idle" /\ itOut = <<>>
NoMCall == [op |-> "none", via |-> 0, on |-> 0, arg |-> 0, n |-> 0, ret |-> NoValue]

IdleMat == mats = <<>> /\ comp = <<>> /\ got = <<>> /\ ref = <<>> /\ mcall = NoMCall

-----------------------------------------------------------------------------
(* Spec: one object under test, a Box2 from Box2.empty(), a Box3 from          *)
(* Box3.empty() or a Vec2, under every box and vector call with every         *)
(* argument, aliased ones included.                                           *)

Init ==
    /\ \/ box2 = EmptyBox2 /\ box3 = NoBox /\ vec = NoBox
       \/ box2 = NoBox /\ box3 = Box3_empty /\ vec = NoBox
       \/ box2 = NoBox /\ box3 = NoBox /\ vec \in Points
    /\ call = NoCall
    /\ IdleIt /\ IdleMat

Next ==
    \/ Box2Empty
    \/ Box2Expand(PtArgs(AllPoints))
    \/ Box2ExpandAll(PtArgs(AllPoints))
    \/ Box2ExpandByBox(BoxArgs(AllBoxes))
    \/ Box2ExpandByBoxes(BoxArgs(AllBoxes))
    \/ Box2Scale
    \/ Box2Floor
    \/ Box2FromPoints
    \/ Box2Wrapping
    \/ Vec2Lper
    \/ Mat2ATransformPoint
    \/ Box3Empty
    \/ Box3ExpandAll(PtArgs(AllPoints3))
    \/ Box3FromPoints
    \/ Return

Spec == Init /\ [][Next]_vars

-----------------------------------------------------------------------------
(* SpecExpand: a box from Box2.empty() or Box3.empty() under the expansion     *)
(* calls alone, with finite points and with boxes that are empty or populated *)

IsEmpty(b) == \A j \in 1..Len(b[1]) : b[1][j] = Infinity /\ b[2][j] = NegInfinity

IsPopulated(b) == \A j \in 1..Len(b[1]) :
                      IsFinite(b[1][j]) /\ IsFinite(b[2][j]) /\ b[1][j] <= b[2][j]

\* finite points: the finite values, and the corners of the box once it is populated
FinitePtArgs(S, b) == {Lit(p) : p \in S} \cup {Alias(c) : c \in {i \in 1..2 : IsPopulated(b)}}

\* well-formed boxes: the empty box, the populated values, and the box itself
GoodBoxArgs == {Lit(b) : b \in PopBoxes \cup {EmptyBox2}} \cup {Alias(1)}

InitExpand ==
    /\ \/ box2 = EmptyBox2 /\ box3 = NoBox
       \/ box2 = NoBox /\ box3 = Box3_empty
    /\ vec = NoBox
    /\ call = NoCall
    /\ IdleIt /\ IdleMat

NextExpand ==
    \/ Box2Expand(FinitePtArgs(Points, box2))
    \/ Box2ExpandAll(FinitePtArgs(Points, box2))
    \/ Box2ExpandByBox(GoodBoxArgs)
    \/ Box2ExpandByBoxes(GoodBoxArgs)
    \/ Box3ExpandAll(FinitePtArgs(Points3, box3))
    \/ Return

SpecExpand == InitExpand /\ [][NextExpand]_vars

-----------------------------------------------------------------------------
(* Box2.integerPoints: the generator, one action per step of its loops.  The   *)
(* values yielded are collected in itOut as the consumer sees them, each at   *)
(* the moment it is yielded (the one vector P is reused).                     *)

\* the coordinates of the boxes enumerated: -1, 1/2 and 2
ItCoords == {-Res, Res \div 2, 2 * Res}

ItBoxes == {<<<<x0, y0>>, <<x1, y1>>>> : x0 \in ItCoords, y0 \in ItCoords,
                                         x1 \in ItCoords, y1 \in ItCoords}
           \cup {EmptyBox2}

\* ++x
Incr(x) == Add(x, Res)

\* const [[x0, y0], [x1, y1]] = B; const P = Vec2.zero(); x = Math.floor(x0)
ItStart ==
    /\ itPc = "start"
    /\ itP' = <<0, 0>>
    /\ itX' = MathFloor(itB[1][1])
    /\ itPc' = "outer"
    /\ UNCHANGED <<itB, itY, itOut, box2, box3, vec, call, matVars>>

\* the test of the outer loop, then y = Math.floor(y0)
ItOuter ==
    /\ itPc = "outer"
    /\ IF Le(itX, itB[2][1])
       THEN itY' = MathFloor(itB[1][2]) /\ itPc' = "inner"
       ELSE itY' = itY /\ itPc' = "done"
    /\ UNCHANGED <<itB, itX, itP, itOut, box2, box3, vec, call, matVars>>

\* the inner loop with a strict test
ItInner_strict ==
    /\ itPc = "inner"
    /\ IF itY # NaN /\ itB[2][2] # NaN /\ itY < itB[2][2]
       THEN /\ itP' = <<itX, itY>>
            /\ itOut' = Append(itOut, <<itX, itY>>)
            /\ itX' = itX
            /\ itPc' = "yielded"
       ELSE /\ itX' = Incr(itX)
            /\ itPc' = "outer"
            /\ UNCHANGED <<itP, itOut>>
    /\ UNCHANGED <<itB, itY, box2, box3, vec, call, matVars>>

\* the test of the inner loop: P[0] = x, P[1] = y, yield P; or ++x
ItInner ==
    /\ itPc = "inner"
    /\ IF Le(itY, itB[2][2])
       THEN /\ itP' = <<itX, itY>>
            /\ itOut' = Append(itOut, <<itX, itY>>)
            /\ itX' = itX
            /\ itPc' = "yielded"
       ELSE /\ itX' = Incr(itX)
            /\ itPc' = "outer"
            /\ UNCHANGED <<itP, itOut>>
    /\ UNCHANGED <<itB, itY, box2, box3, vec, call, matVars>>

\* the consumer asks for the next point: ++y
ItResume ==
    /\ itPc = "yielded"
    /\ itY' = Incr(itY)
    /\ itPc' = "inner"
    /\ UNCHANGED <<itB, itX, itP, itOut, box2, box3, vec, call, matVars>>

IdleBox == box2 = NoBox /\ box3 = NoBox /\ vec = NoBox /\ call = NoCall

InitIt ==
    /\ itB \in ItBoxes
    /\ itX = 0 /\ itY = 0 /\ itP = <<0, 0>> /\ itPc = "start" /\ itOut = <<>>
    /\ IdleBox /\ IdleMat

NextIt == ItStart \/ ItOuter \/ ItInner \/ ItResume

\* a consumer that iterates to the end keeps asking for the next point
SpecIt == InitIt /\ [][NextIt]_vars /\ WF_vars(NextIt)

-----------------------------------------------------------------------------
(* SpecMat: matrix 1 is a MatA the caller holds; composers are built on it or  *)
(* on the default argument, and mutators are called on the matrix directly    *)
(* and through the composers, in any order.                                   *)

\* the vectors, factors and angles (in quarter turns) the mutators are called with
Vectors == {<<1, 2, -1>>}
Scalars == {2}
Turns == {1}

ArgsOf(op) ==
    IF op \in {"translate", "scaleVector"} THEN Vectors
    ELSE IF op \in {"rotateX", "rotateY", "rotateZ"} THEN Turns
    ELSE Scalars

\* the matrices the caller starts from: the identity, and two that mix rows
\* and hold a translation
StartMats == {MatA_eye,
              MatA_translate(MatA_rotateZ(MatA_scaleX(MatA_eye, 2), 1), <<1, 0, 3>>),
              MatA_rotateX(MatA_translate(MatA_scaleVector(MatA_eye, <<1, -2, 3>>), <<0, 1, 1>>), 1)}

NextId == Len(mats) + 1

\* a mutator called directly on the matrix the caller holds
StaticCall ==
    /\ mats # <<>> /\ mcall.n < MaxCalls
    /\ \E id \in {1}, op \in Mutators :
         \E arg \in ArgsOf(op) :
            /\ mats' = [mats EXCEPT ![id] = Static(op, @, arg)]
            /\ ref' = [ref EXCEPT ![id] = Static(op, @, arg)]
            /\ mcall' = [op |-> op, via |-> 0, on |-> id, arg |-> arg, n |-> mcall.n + 1,
                         ret |-> StaticReturn(op, id)]
    /\ UNCHANGED <<comp, got, box2, box3, vec, call, itVars>>

\* MatA.compose(A) on the caller's matrix
ComposeOn ==
    /\ mats # <<>> /\ Len(comp) < MaxComposers
    /\ LET made == NewComposer(mats, 1, NextId)
       IN  /\ mats' = made.ms
           /\ ref' = ref @@ [i \in (Len(ref) + 1)..Len(made.ms) |-> made.ms[i]]
           /\ comp' = Append(comp, [A |-> made.A, given |-> 1, default |-> FALSE])
    /\ got' = Append(got, <<>>)
    /\ mcall' = [mcall EXCEPT !.op = "compose", !.via = 0, !.on = 1, !.arg = 0,
                              !.ret = TheComposer(Len(comp) + 1)]
    /\ UNCHANGED <<box2, box3, vec, call, itVars>>

\* MatA.compose(): the default argument eye() is evaluated by this call
ComposeDefault ==
    /\ mats # <<>> /\ Len(comp) < MaxComposers
    /\ LET withEye == Append(mats, MatA_eye)
           made == NewComposer(withEye, NextId, NextId + 1)
       IN  /\ mats' = made.ms
           /\ ref' = ref @@ [i \in (Len(ref) + 1)..Len(made.ms) |-> made.ms[i]]
           /\ comp' = Append(comp, [A |-> made.A, given |-> NextId, default |-> TRUE])
    /\ got' = Append(got, <<>>)
    /\ mcall' = [mcall EXCEPT !.op = "compose", !.via = 0, !.on = NextId, !.arg = 0,
                              !.ret = TheComposer(Len(comp) + 1)]
    /\ UNCHANGED <<box2, box3, vec, call, itVars>>

\* a mutator called on composer k; the replay applies the static mutator to the
\* matrix the composer was built on
ComposerCall ==
    /\ mcall.n < MaxCalls
    /\ \E k \in 1..Len(comp), op \in Mutators :
         \E arg \in ArgsOf(op) :
            /\ mats' = Composer(op, mats, comp[k], arg)
            /\ ref' = [ref EXCEPT ![comp[k].given] = Static(op, @, arg)]
            /\ mcall' = [op |-> op, via |-> k, on |-> comp[k].given, arg |-> arg,
                         n |-> mcall.n + 1, ret |-> ComposerReturn(op, k, comp[k].given)]
    /\ UNCHANGED <<comp, got, box2, box3, vec, call, itVars>>

\* get() on composer k: the caller keeps what it returned
ComposerGet ==
    /\ \E k \in 1..Len(comp) :
         /\ Len(got[k]) < 1
         /\ got' = [got EXCEPT ![k] = Append(@, MatAComposer_get(comp[k]))]
         /\ mcall' = [mcall EXCEPT !.op = "get", !.via = 0, !.on = 0, !.arg = 0,
                                   !.ret = TheMatrix(MatAComposer_get(comp[k]))]
    /\ UNCHANGED <<mats, ref, comp, box2, box3, vec, call, itVars>>

InitMat ==
    /\ \E A \in StartMats : mats = <<A>> /\ ref = <<A>>
    /\ comp = <<>> /\ got = <<>> /\ mcall = NoMCall
    /\ IdleBox /\ IdleIt

NextMat == StaticCall \/ ComposeOn \/ ComposeDefault \/ ComposerCall \/ ComposerGet

SpecMat == InitMat /\ [][NextMat]_vars

-----------------------------------------------------------------------------
(* The specification of repeated rotations: the caller keeps a copy of a      *)
(* matrix (matrix 2) and calls one of rotateX, rotateY, rotateZ on the matrix *)
(* (matrix 1) again and again, each time with a quarter turn.                 *)

\* the rows the matrices under rotation are made of
RotRows == {<<1, 0, 0, 0>>, <<0, 1, 0, 0>>, <<0, 0, 1, 0>>, <<2, -1, 3, 1>>, <<0, -2, 1, -3>>}

\* the MatA with the rows r0, r1, r2 and the last row (0, 0, 0, 1)
MatA(r0, r1, r2) ==
    [i \in 0..15 |-> (r0 \o r1 \o r2 \o <<0, 0, 0, 1>>)[i + 1]]

RotMats == {MatA(r0, r1, r2) : r0 \in RotRows, r1 \in RotRows, r2 \in RotRows}

Rotations == {"rotateX", "rotateY", "rotateZ"}

\* one more call of the rotation op, a quarter turn, on matrix 1
RotateAgain(op) ==
    /\ mcall.op \in {"none", op} /\ mcall.n < MaxTurns
    /\ mats' = [mats EXCEPT ![1] = Static(op, @, 1)]
    /\ mcall' = [op |-> op, via |-> 0, on |-> 1, arg |-> 1, n |-> mcall.n + 1,
                 ret |-> StaticReturn(op, 1)]
    /\ UNCHANGED <<ref, comp, got, box2, box3, vec, call, itVars>>

InitRot ==
    /\ \E A \in RotMats : mats = <<A, A>> /\ ref = <<A, A>>
    /\ comp = <<>> /\ got = <<>> /\ mcall = NoMCall
    /\ IdleBox /\ IdleIt

NextRot == RotateAgain("rotateX") \/ RotateAgain("rotateY") \/ RotateAgain("rotateZ")

SpecRot == InitRot /\ [][NextRot]_vars

-----------------------------------------------------------------------------
(* The specification of the projection: the caller builds one perspective     *)
(* matrix (matrix 1) and transforms view-space points with it.                *)

\* near and far, in halves
Nears == {1, 2, 4, 6}
Fars == {4, 6, 8, 10, 14, 20}
Widths == {1, 4}
Heights == {1, 3}
\* the values of Math.tan(0.5 * fovy * DEG_TO_RAD): fovy = 90 and a narrower one
Tans == {Round(1, 1), Round(1, 2)}

\* the parameters with width > 0, height > 0 and far > near > 0
NearFar == {nf \in Nears \X Fars : nf[2] > nf[1]}

Params == {[near |-> Round(nf[1], 2), far |-> Round(nf[2], 2), width |-> Round(w, 1),
            height |-> Round(h, 1), tan |-> t] :
              nf \in NearFar, w \in Widths, h \in Heights, t \in Tans}

\* the view-space points: on the near plane, on the far plane, and two others
ViewPoints(params) ==
    {<<Round(0, 1), Round(0, 1), FNeg(params.near)>>,
     <<Round(0, 1), Round(0, 1), FNeg(params.far)>>,
     <<Round(0, 1), Round(0, 1), Round(-1, 1)>>,
     <<Round(1, 1), Round(-3, 2), Round(-5, 2)>>}

Perspective ==
    /\ mats = <<>>
    /\ \E params \in Params :
          /\ mats' = <<Mat4_perspective(params)>>
          /\ mcall' = [NoMCall EXCEPT !.op = "perspective", !.arg = params]
    /\ UNCHANGED <<ref, comp, got, box2, box3, vec, call, itVars>>

TransformPoint ==
    /\ mats # <<>>
    /\ \E P \in ViewPoints(mcall.arg) :
          /\ Mat4_w(mats[1], P)[1] # 0
          /\ call' = [NoCall EXCEPT !.op = "Mat4.transformPoint", !.ins = <<P>>,
                                    !.ret = Mat4_transformPointF(mats[1], P)]
    /\ UNCHANGED <<mats, ref, comp, got, mcall, box2, box3, vec, itVars>>

InitPersp == IdleBox /\ IdleIt /\ IdleMat

NextPersp == Perspective \/ TransformPoint

SpecPersp == InitPersp /\ [][NextPersp]_vars

-----------------------------------------------------------------------------
(* The specification of the adapter: the caller adapts a host 2D transform    *)
(* to a Mat2A (matrix 1) and transforms the Vec2 under test with it.          *)

\* the host transforms: every linear part over -1, 0, 1 with two translations
DOMMatrices == [a : {-1, 0, 1}, b : {-1, 0, 1}, c : {-1, 0, 1}, d : {-1, 0, 1},
                e : {0, Res}, f : {0, -Res}]

\* Mat2A.fromDOMMatrix(M) into a new Mat2A, or into the one made before
FromDOMMatrix ==
    /\ Ready /\ mcall.n < MaxCalls
    /\ \E M \in DOMMatrices :
          /\ mats' = <<Mat2A_fromDOMMatrix(M)>>
          /\ mcall' = [NoMCall EXCEPT !.op = "fromDOMMatrix", !.arg = M, !.on = 1,
                                      !.n = mcall.n + 1]
    /\ UNCHANGED <<ref, comp, got, box2, box3, vec, call, itVars>>

\* Mat2A.transformPoint with the adapted matrix
TransformByAdapted ==
    /\ Ready /\ vec # NoBox /\ mats # <<>>
    /\ \E dst \in {"self", "fresh"} :
         VecWithDest("transformPoint", dst,
                     Mat2A_transformPoint(HeapV(vec), mats[1], 1, 1),
                     Mat2A_transformPoint(HeapV(vec), mats[1], 1, 2))
    /\ UNCHANGED <<box2, box3, itVars, matVars>>

InitDOM ==
    /\ box2 = NoBox /\ box3 = NoBox /\ vec \in Points /\ call = NoCall
    /\ IdleIt /\ IdleMat

NextDOM == FromDOMMatrix \/ TransformByAdapted \/ Return

SpecDOM == InitDOM /\ [][NextDOM]_vars

-----------------------------------------------------------------------------
(* Claims about the boxes and the destination convention *)

NoNaN(b) == \A i \in 1..Len(b) : \A j \in 1..Len(b[i]) : b[i][j] # NaN

\* the inputs of the last call hold no NaN (a point is a tuple of numbers, a box
\* a pair of points)
InsNoNaN(c) ==
    \A k \in 1..Len(c.ins) :
        IF c.op \in {"expandByBox", "expandByBoxes", "wrapping"}
        THEN NoNaN(c.ins[k])
        ELSE IF c.op = "scale" THEN c.ins[k] # NaN
        ELSE \A j \in 1..Len(c.ins[k]) : c.ins[k][j] # NaN

\* C2: a call whose destination is the storage of one of its sources returns
\* the values that the same call returns into a fresh destination (Vec2.lper,
\* Mat2A.transformPoint, Box2.fromPoints, Box2.wrapping).
C2_AliasedDestinationSameResult ==
    (call.aliased /\ call.op \in {"lper", "transformPoint", "fromPoints", "wrapping"})
        => call.ret = call.fresh

\* component j of corner i of the fold the constructors are documented to
\* compute: the minimum (i = 1) or maximum (i = 2) over the inputs, starting
\* from the empty box, whatever the order of the inputs
FoldOf(vals, i, j) ==
    IF \E k \in 1..Len(vals) : vals[k][j] = NaN THEN NaN
    ELSE LET S == {vals[k][j] : k \in 1..Len(vals)} \cup {IF i = 1 THEN Infinity ELSE NegInfinity}
         IN  CHOOSE m \in S : \A n \in S : IF i = 1 THEN m <= n ELSE m >= n

Dim(c) == IF c.op = "Box3.fromPoints" THEN 3 ELSE 2

\* the values folded into corner i: the points, or corner i of the boxes
Folded(c, i) == [k \in 1..Len(c.ins) |-> IF c.op = "wrapping" THEN c.ins[k][i] ELSE c.ins[k]]

\* C3: fromPoints, wrapping and Box3.fromPoints return the fold of their inputs
\* from the empty box, for every destination, omitted or with prior contents
\* (inputs that do not share storage with the destination).
C3_ConstructorsStartFromEmpty ==
    (call.op \in {"fromPoints", "wrapping", "Box3.fromPoints"} /\ ~call.aliased)
        => \A i \in 1..2 : \A j \in 1..Dim(call) : call.ret[i][j] = FoldOf(Folded(call, i), i, j)

Expansions == {"expand", "expandAll", "expandByBox", "expandByBoxes", "Box3.expandAll"}

BoxOf(c, b2, b3) == IF c.op = "Box3.expandAll" THEN b3 ELSE b2

\* b grew into a: no component of P0 rose, no component of P1 fell
Grew(b, a) == \A j \in 1..Len(b[1]) : Le(a[1][j], b[1][j]) /\ Le(b[2][j], a[2][j])

\* C4: an expansion call with non-NaN arguments only grows or preserves the
\* box: each component of P0 after is <= before, each component of P1 >= before.
C4_ExpansionMonotone ==
    [][(call'.op \in Expansions /\ InsNoNaN(call') /\ NoNaN(BoxOf(call', box2, box3)))
          => Grew(BoxOf(call', box2, box3), BoxOf(call', box2', box3'))]_vars

\* an expansion by two points has moved both corners of the box apart
C4_Witness ==
    /\ call.op = "expandAll" /\ Len(call.ins) = 2 /\ InsNoNaN(call)
    /\ IsPopulated(box2) /\ box2[1] # box2[2]
    /\ call.ins[1] # call.ins[2] /\ box2[1] \notin {call.ins[1], call.ins[2]}

\* C5: from the empty box, under expansion calls with finite points and empty
\* or populated boxes, a box is always empty or populated, never mixed, and
\* expanding an empty box by one finite point P gives P0 = P1 = P.
C5_EmptyOrPopulated ==
    /\ [](/\ box2 # NoBox => (IsEmpty(box2) \/ IsPopulated(box2))
          /\ box3 # NoBox => (IsEmpty(box3) \/ IsPopulated(box3)))
    /\ [][(call'.op = "expand" /\ IsEmpty(box2))
             => (box2'[1] = call'.ins[1] /\ box2'[2] = call'.ins[1])]_vars

\* an empty box was expanded by one point and is now that point
C5_Witness ==
    /\ call.op = "expand" /\ IsPopulated(box2)
    /\ box2[1] = call.ins[1] /\ box2[2] = call.ins[1]

\* the lattice of the model's range, and the points of it a box covers
Range == (-(MaxMag * Res))..(MaxMag * Res)

Covers(b, p) == \A j \in 1..Len(p) : Le(b[1][j], p[j]) /\ Le(p[j], b[2][j])

Lattice(b) == IF Len(b[1]) = 2 THEN Range \X Range ELSE Range \X Range \X Range

Contains(a, b) == \A p \in Lattice(b) : Covers(b, p) => Covers(a, p)

\* C6 as stated: every call that mutates a populated box in place, Box2.scale
\* and Box2.floor included, leaves a region that contains the region before
\* (arguments without NaN).
C6_NoCallShrinks ==
    [][(call'.op \in Expansions \cup {"scale", "floor"} /\ InsNoNaN(call')
          /\ IsPopulated(BoxOf(call', box2, box3)))
          => Contains(BoxOf(call', box2', box3'), BoxOf(call', box2, box3))]_vars

\* C6 as amended: the expansion calls, with arguments without NaN, leave a
\* region that contains the region of the populated box before.
C6_ExpansionsNeverShrink ==
    [][(call'.op \in Expansions /\ InsNoNaN(call')
          /\ IsPopulated(BoxOf(call', box2, box3)))
          => Contains(BoxOf(call', box2', box3'), BoxOf(call', box2, box3))]_vars

\* a populated box was expanded by a box that reaches beyond it on both sides
C6_Witness ==
    /\ call.op = "expandByBox" /\ IsPopulated(box2) /\ IsPopulated(call.ins[1])
    /\ box2 # call.ins[1]
    /\ \E p \in Lattice(box2) : Covers(box2, p) /\ ~Covers(call.ins[1], p)

-----------------------------------------------------------------------------
(* Claims about Box2.integerPoints *)

\* the whole numbers of the model's lattice
Whole == {n * Res : n \in (-(2 * MaxMag))..(2 * MaxMag)}

\* the integer points the enumeration of b is documented to yield
Wanted(b) == {p \in Whole \X Whole :
                 /\ Le(MathFloor(b[1][1]), p[1]) /\ Le(p[1], b[2][1])
                 /\ Le(MathFloor(b[1][2]), p[2]) /\ Le(p[2], b[2][2])}

ColumnMajor(out) == \A i \in 1..Len(out) : \A j \in 1..Len(out) :
                        i < j => \/ out[i][1] < out[j][1]
                                 \/ out[i][1] = out[j][1] /\ out[i][2] < out[j][2]

Box8 == <<<<Res \div 2, Res \div 2>>, <<2 * Res, 2 * Res>>>>

\* C8 as stated: over [(1/2, 1/2), (2, 2)] the enumeration yields exactly
\* (1,1), (1,2), (2,1), (2,2), in that order.
C8_FourPoints ==
    (itB = Box8 /\ itPc = "done")
        => itOut = <<<<Res, Res>>, <<Res, 2 * Res>>, <<2 * Res, Res>>, <<2 * Res, 2 * Res>>>>

\* C8 as amended: over [(1/2, 1/2), (2, 2)] the enumeration yields exactly the
\* nine points (0,0), (0,1), (0,2), (1,0), (1,1), (1,2), (2,0), (2,1), (2,2),
\* in that order.
C8_NinePoints ==
    (itB = Box8 /\ itPc = "done")
        => itOut = << <<0, 0>>, <<0, Res>>, <<0, 2 * Res>>,
                      <<Res, 0>>, <<Res, Res>>, <<Res, 2 * Res>>,
                      <<2 * Res, 0>>, <<2 * Res, Res>>, <<2 * Res, 2 * Res>> >>

\* the enumeration of [(1/2, 1/2), (2, 2)] has ended
C8_Witness == itB = Box8 /\ itPc = "done" /\ Len(itOut) > 0

-----------------------------------------------------------------------------
(* Claims about MatA and its composer *)

\* the origin and the three unit points: an affine map is fixed by their images
Probes == {<<0, 0, 0>>, <<1, 0, 0>>, <<0, 1, 0>>, <<0, 0, 1>>}

\* the step is a mutator call
Mutated == mcall'.op \in Mutators /\ mcall'.n = mcall.n + 1

\* C1: every mutator is pre-applied: the mutated matrix maps a point P to where
\* the original matrix maps the image of P under the mutator's own transform
\* T = op(identity), that is op(A) = A.T.
C1_PreApplied ==
    [][Mutated =>
         LET id == mcall'.on
             T  == Static(mcall'.op, MatA_eye, mcall'.arg)
         IN  \A P \in Probes :
                 Mat4_transformPoint(mats'[id], P)
                     = Mat4_transformPoint(mats[id], Mat4_transformPoint(T, P))]_vars

LastRow(A) == <<A[12], A[13], A[14], A[15]>>

\* C9: the last row of every MatA is (0, 0, 0, 1) after any sequence of
\* mutator calls, made directly or through a composer.
C9_LastRowFixed == \A id \in 1..Len(mats) : LastRow(mats[id]) = <<0, 0, 0, 1>>

\* a matrix that was scaled as a whole after another mutator call: none of its
\* first three rows is a row of the identity
C9_Witness ==
    /\ mcall.op = "scale" /\ mcall.n >= 2
    /\ \E id \in 1..Len(mats) :
          \A r \in 0..2 : \E i \in 0..3 : mats[id][4 * r + i] # MatA_eye[4 * r + i]

\* C10: a composer holds the matrix it was built on, by reference: get()
\* returns that very matrix, the matrix holds what the static mutators give in
\* the same call order (also for calls made after get()), and the matrix of
\* MatA.compose() is one no other composer and not the caller holds.
C10_ComposerForwards ==
    \A k \in 1..Len(comp) :
        /\ \A i \in 1..Len(got[k]) : got[k][i] = comp[k].given
        /\ mats[comp[k].given] = ref[comp[k].given]
        /\ comp[k].default =>
              /\ comp[k].given # 1
              /\ \A j \in 1..Len(comp) : j # k => comp[j].given # comp[k].given

\* a mutator was called through a composer after its get(), and the matrix
\* that get() returned shows it
C10_Witness ==
    \E k \in 1..Len(comp) :
        /\ Len(got[k]) = 1 /\ mcall.via = k /\ mcall.op = "scaleY"
        /\ mats[got[k][1]] = ref[comp[k].given]
        /\ mats[got[k][1]] \notin StartMats \cup {MatA_eye}

\* C11: every mutator returns its receiver: a static mutator returns the
\* matrix it was given and mutated, a composer method returns the composer it
\* was called on.
C11_MutatorsReturnReceiver ==
    mcall.op \in Mutators =>
        mcall.ret = IF mcall.via = 0 THEN TheMatrix(mcall.on) ELSE TheComposer(mcall.via)

\* C11, the part the code keeps: translate and every composer method return
\* their receiver
C11_ChainableCalls ==
    (mcall.op \in Mutators /\ (mcall.via # 0 \/ mcall.op = "translate")) =>
        mcall.ret = IF mcall.via = 0 THEN TheMatrix(mcall.on) ELSE TheComposer(mcall.via)

\* a composer method that forwards to a void static mutator has returned
C11_Witness ==
    /\ mcall.op = "rotateZ" /\ mcall.via # 0
    /\ mcall.ret = TheComposer(mcall.via)
    /\ mats[mcall.on] # MatA_eye

Row(A, r) == <<A[4 * r], A[4 * r + 1], A[4 * r + 2], A[4 * r + 3]>>

Negated(row) == [i \in 1..4 |-> -row[i]]

AxisX == <<1, 0, 0>>
AxisY == <<0, 1, 0>>
AxisZ == <<0, 0, 1>>

OnPlane(d) ==
    /\ call.op = "Mat4.transformPoint"
    /\ call.ins[1] = <<Round(0, 1), Round(0, 1), FNeg(d)>>

Near1(x, c, num, den) ==
    /\ FLeq(FNeg(x), num - c * den, den)
    /\ FLeq(x, num + c * den, den)

\* near + far and far - near of the parameters, exact and in the same unit
\* (2^lo, the smaller of the two exponents)
SumOf(params) ==
    LET lo == IF params.near[2] < params.far[2] THEN params.near[2] ELSE params.far[2]
    IN  params.far[1] * Pow2(params.far[2] - lo) + params.near[1] * Pow2(params.near[2] - lo)
DepthOf(params) ==
    LET lo == IF params.near[2] < params.far[2] THEN params.near[2] ELSE params.far[2]
    IN  params.far[1] * Pow2(params.far[2] - lo) - params.near[1] * Pow2(params.near[2] - lo)

HostImage(M, P) ==
    <<Add(Add(Times(P[1], M.a), Times(P[2], M.c)), M.e),
      Add(Add(Times(P[1], M.b), Times(P[2], M.d)), M.f)>>

\* C14: the adapted matrix holds the rows (a, c, e) and (b, d, f) of the host
\* transform, and Mat2A.transformPoint with it gives the host transform's
\* image of the point.
C14_AdapterPreservesMapping ==
    mcall.op = "fromDOMMatrix" =>
        /\ mats[1] = <<mcall.arg.a, mcall.arg.c, mcall.arg.e,
                       mcall.arg.b, mcall.arg.d, mcall.arg.f>>
        /\ call.op = "transformPoint" => call.ret = HostImage(mcall.arg, call.ins[1])

\* C14, what the code does: the adapted matrix holds the rows (a, b, e) and
\* (c, d, f), the linear part of the host transform transposed
C14_AdapterTransposes ==
    mcall.op = "fromDOMMatrix" =>
        /\ mats[1] = <<mcall.arg.a, mcall.arg.b, mcall.arg.e,
                       mcall.arg.c, mcall.arg.d, mcall.arg.f>>
        /\ call.op = "transformPoint" =>
               call.ret = HostImage([mcall.arg EXCEPT !.b = mcall.arg.c, !.c = mcall.arg.b],
                                    call.ins[1])

====
